---- MODULE Spec2Model ----
\* Model of g_code_generator.py: the script that lays a text out on a page,
\* renders each word through a stroke font and emits the G-code program.
\*
\* Units.  The script rounds every coordinate to 2 decimals and every
\* timestamp to 3, so the model is in fixed point:
\*   lengths      hundredths of a millimetre   (pen_up = 70 mm  = 7000)
\*   font units   hundredths                   (raw x = 0.5     = 50)
\*   jitter       hundredths                   (value 0.5       = 50)
\*   times        milliseconds                 (0.05 s          = 50)
\*   feedrates    tenths of mm/min             (F45000.0        = 450000)
\* Float expressions the script does not round are floored at that
\* resolution.
EXTENDS Integers, Sequences, FiniteSets, TLC

\* ------------------------------------------------------------------
\* Print variables (lines 41-98)
\* ------------------------------------------------------------------
XY_ACCELERATION == 10000
XY_TRAVEL_ACCELERATION == 12000
Z_ACCELERATION == 1000

word_crossing_probability == 12
max_word_crossing_point_variance == 15
word_crossing_y_height == 40
word_crossing_x_overhang == 100
min_word_crossing_force == 75
max_word_crossing_force == 95
points_per_word_crossing_character == 15
time_per_word_crossing_character == 100

pen_down_min == 6725
pen_down_max == 6685
pen_up == 7000

pen_x_print_done == 24000
pen_y_print_done == 24000
pen_z_print_done == 12000

pen_x_print_start == 12800
pen_y_print_start == 12800
pen_z_print_start == 12000

x_homing == 25600
y_homing == -310

print_bed_height == 25600

page_x_offset == 7100
page_y_offset == 1375
page_width == 15500

page_width_buffer == 400
page_height_buffer == 500
page_x_buffer == 600

date_x_offset == 15650

line_height == 1000

xy_travel_speed == 50000
z_travel_speed == 2000

\* speed_multiplier = 1.5, as the factor from mm/min to tenths of mm/min
speed_multiplier == 15

\* the position the interpreter starts from (line 483) and the height the
\* Z homing reports (line 282)
start_pos == 12800
z_homed == 1500

\* the settle gap between strokes and characters (lines 384, 396, 399)
settle_gap == 50

\* one minute of print_estimate (lines 199-200, 684)
minute == 60000

\* ------------------------------------------------------------------
\* Arithmetic
\* ------------------------------------------------------------------
Abs(a) == IF a < 0 THEN -a ELSE a

\* Python's round() of a / b for b > 0: to nearest, ties to even
RoundDiv(a, b) ==
    LET q == a \div b
        r == a % b
    IN  IF 2 * r < b THEN q
        ELSE IF 2 * r > b THEN q + 1
        ELSE IF q % 2 = 0 THEN q ELSE q + 1

\* math.ceil(a / b) for b > 0
CeilDiv(a, b) == -((-a) \div b)

RECURSIVE IsqrtIter(_, _, _)
IsqrtIter(n, lo, hi) ==
    IF lo >= hi THEN lo
    ELSE LET mid == (lo + hi + 1) \div 2
         IN  IF mid * mid <= n THEN IsqrtIter(n, mid, hi)
             ELSE IsqrtIter(n, lo, mid - 1)

\* math.sqrt, floored
Isqrt(n) == IsqrtIter(n, 0, 46340)

RECURSIVE SeqMax(_)
SeqMax(s) ==
    IF Len(s) = 1 THEN s[1]
    ELSE LET m == SeqMax(Tail(s)) IN IF s[1] > m THEN s[1] ELSE m

RECURSIVE SeqMin(_)
SeqMin(s) ==
    IF Len(s) = 1 THEN s[1]
    ELSE LET m == SeqMin(Tail(s)) IN IF s[1] < m THEN s[1] ELSE m

Last(s) == s[Len(s)]

\* ------------------------------------------------------------------
\* The emitter: g_code, current_pos, print_estimate and
\* full_minute_gcode_positions as one record e, plus e.error, the exception
\* that ended the run ("none" while it runs).
\* An instruction is [op, args]; args maps the operands present
\* ("X", "Y", "Z", "F") to their values.
\* ------------------------------------------------------------------
NoArgs == [n \in {} |-> 0]

Has(a, k) == k \in DOMAIN a

Instr(op, a) == [op |-> op, args |-> a]

Directive(op) == Instr(op, NoArgs)

\* the acceleration class of a move (lines 172-173)
Acceleration(previous_z, new_z, travel_move) ==
    IF new_z # previous_z THEN Z_ACCELERATION
    ELSE IF travel_move THEN XY_TRAVEL_ACCELERATION ELSE XY_ACCELERATION

\* lines 175-179
Distance(p, q) ==
    Isqrt((q[1] - p[1]) * (q[1] - p[1]) + (q[2] - p[2]) * (q[2] - p[2])
          + (q[3] - p[3]) * (q[3] - p[3]))

\* lines 183-195: the trapezoid, in ms; speed in hundredths of mm per s,
\* acceleration in mm/s^2.  -1 stands for the ZeroDivisionError of line 192.
TotalTime(distance, speed, acceleration) ==
    IF acceleration > 0
    THEN LET accel_time == (speed * 10) \div acceleration
             accel_distance2 == ((speed \div 10) * (speed \div 10)) \div acceleration
         IN  IF accel_distance2 > distance
             THEN 2 * Isqrt((distance * 10000) \div acceleration)
             ELSE IF speed = 0 THEN -1
             ELSE 2 * accel_time + ((distance - accel_distance2) * 1000) \div speed
    ELSE IF speed > 0 THEN (distance * 1000) \div speed ELSE 0

\* change_current_position (lines 156-200).  a holds new_x, new_y, new_z as
\* "X", "Y", "Z" and the feedrate as "F" when they are not None.
\* e.accelerations is the history of the calls: the positions, the kind of
\* move and the acceleration line 172-173 chose.
ChangeCurrentPosition(e, a, travel_move) ==
    LET previous_pos == e.current_pos
        new_pos == << IF Has(a, "X") THEN a.X ELSE previous_pos[1],
                      IF Has(a, "Y") THEN a.Y ELSE previous_pos[2],
                      IF Has(a, "Z") THEN a.Z ELSE previous_pos[3] >>
        acceleration == Acceleration(previous_pos[3], new_pos[3], travel_move)
        distance == Distance(previous_pos, new_pos)
        speed == IF Has(a, "F") THEN a.F \div 6 ELSE xy_travel_speed
        total_time == TotalTime(distance, speed, acceleration)
        estimate == e.print_estimate + total_time
        used == [previous_pos |-> previous_pos, new_pos |-> new_pos,
                 travel_move |-> travel_move, acceleration |-> acceleration]
    IN  IF total_time < 0
        THEN [e EXCEPT !.current_pos = new_pos, !.error = "ZeroDivisionError",
                       !.accelerations = Append(@, used)]
        ELSE [e EXCEPT
                !.current_pos = new_pos,
                !.accelerations = Append(@, used),
                !.print_estimate = estimate,
                !.full_minute_gcode_positions =
                    IF CeilDiv(estimate, minute) # CeilDiv(e.print_estimate, minute)
                    THEN Append(@, << Len(e.g_code) - 1, estimate \div minute >>)
                    ELSE @]

\* g_code.append of a line that is no move
AppendLine(e, op) ==
    IF e.error # "none" THEN e
    ELSE [e EXCEPT !.g_code = Append(@, Directive(op))]

\* append_gcode (lines 138-152); a holds x, y, z, f when they are not None
AppendGcode(e, a, travel_move) ==
    IF e.error # "none" THEN e
    ELSE LET out == [k \in DOMAIN a |->
                        IF k = "F" THEN (a[k] * speed_multiplier) ELSE a[k]]
             line == Instr(IF travel_move THEN "G0" ELSE "G1", out)
         IN  ChangeCurrentPosition([e EXCEPT !.g_code = Append(@, line)],
                                   out, travel_move)

\* a move that changes the position without a G0/G1 line (lines 277, 282)
Reposition(e, a) ==
    IF e.error # "none" THEN e ELSE ChangeCurrentPosition(e, a, FALSE)

XYF(x, y, f) == [X |-> x, Y |-> y, F |-> f]
ZF(z, f) == [Z |-> z, F |-> f]
XYZF(x, y, z, f) == [X |-> x, Y |-> y, Z |-> z, F |-> f]

\* mm/s (in hundredths) to the mm/min the script passes as f
PerMinute(speed) == (speed * 60) \div 100

\* append_init_gcode (lines 268-285)
AppendInitGcode(e) ==
    LET e1 == AppendLine(AppendLine(AppendLine(e, "M201"), "M204T"), "M204P")
        e2 == Reposition(AppendLine(e1, "G28XY"), [X |-> 0, Y |-> 0])
        e3 == AppendGcode(e2, XYF(x_homing, y_homing, PerMinute(xy_travel_speed)), TRUE)
        e4 == Reposition(AppendLine(e3, "G28Z"),
                         [Z |-> z_homed, F |-> PerMinute(z_travel_speed) * 10])
        e5 == AppendGcode(e4, ZF(pen_z_print_start, PerMinute(z_travel_speed)), TRUE)
    IN  AppendGcode(e5, XYF(pen_x_print_start, pen_y_print_start,
                            PerMinute(xy_travel_speed)), TRUE)

\* ------------------------------------------------------------------
\* Font file (lines 105-130): the scalar parameters and the glyphs of the
\* font the runs are checked with.
\* ------------------------------------------------------------------
cursive_connection_points == 2
cursive_connection_time == 200
capital_character_height == 1000
space_width == 300
x_spacing == 100
max_height_variance == 20
max_x_variance == 20
max_y_variance == 20
min_skew == 0
max_skew == 20
max_stroke_point_x_variance == 10
max_stroke_point_y_variance == 10
new_character_variance == 3
new_point_variance == 2

\* a raw point is << x, y, force, t >>; a stroke is a sequence of points;
\* a stroke-variant is a sequence of strokes.  The letters of the long words
\* are recorded slowly, the other glyphs quickly.
slow_stroke_time == 12000
quick_stroke_time == 600

PlainVariant == << << << 0, 100, 50, 0 >>, << 100, 0, 100, slow_stroke_time >> >> >>

QuickVariant == << << << 0, 100, 50, 0 >>, << 100, 0, 100, quick_stroke_time >> >> >>

OtherVariant == << << << 0, 0, 100, 0 >>, << 100, 100, 0, quick_stroke_time >> >> >>

NarrowVariant == << << << 0, 100, 50, 0 >>, << 20, 0, 100, quick_stroke_time >> >> >>

\* a stem and a dot
DottedVariant ==
    << << << 50, 100, 50, 0 >>, << 50, 30, 100, slow_stroke_time >> >>,
       << << 50, 0, 50, 0 >>, << 60, 0, 100, 100 >> >> >>

\* a stem the recording holds twice, as two strokes with the same samples
RetracedVariant ==
    << << << 50, 100, 50, 0 >>, << 50, 0, 100, quick_stroke_time >> >>,
       << << 50, 100, 50, 0 >>, << 50, 0, 100, quick_stroke_time >> >> >>

Letters ==
    { "a", "b", "c", "e", "h", "i", "l", "o", "p", "s", "u", "v", "z",
      "B", "N", "T" }

FontCharacters == Letters \cup { "0", "2", "6", "." }

\* str.isalpha of one character
IsAlpha(c) == c \in Letters

\* font_data[character]: the cursive flag, then the stroke-variants
font_data(c) ==
    IF c = "e" THEN << TRUE, PlainVariant >>
    ELSE IF c = "a" THEN << FALSE, QuickVariant, OtherVariant >>
    ELSE IF c = "i" THEN << FALSE, DottedVariant >>
    ELSE IF c = "z" THEN << FALSE, RetracedVariant >>
    ELSE IF c \in { "b", "u" } THEN << FALSE, QuickVariant >>
    ELSE IF c \in { "0", "2", "6", ".", "N", "o", "v" } THEN << FALSE, NarrowVariant >>
    ELSE << FALSE, PlainVariant >>

\* font_data.get(character, []) (line 426)
FontGet(c) == IF c \in FontCharacters THEN font_data(c) ELSE << >>

\* ------------------------------------------------------------------
\* Variance curves
\* ------------------------------------------------------------------
\* The value the spline through np.random.uniform(-1, 1) samples takes at
\* position i, for the random state seed: a curve of amplitude seed / 2
\* (seed 0 is the flat curve).
Sample(seed, i) == 50 * seed * ((i % 3) - 1)

\* the number of values interpolate_random returns (lines 309-313)
InterpolateRandomLength(lenght, spacing) ==
    LET extra_length == spacing - (lenght % spacing)
    IN  lenght + extra_length

\* interpolate_random (lines 305-319)
interpolate_random(lenght, spacing, seed) ==
    [i \in 1..InterpolateRandomLength(lenght, spacing) |-> Sample(seed, i)]

\* remove_first on one array (lines 288-293)
remove_first(array) == IF array = << >> THEN << >> ELSE Tail(array)

\* is_vowel, is_consonant (lines 296-302); the umlauts of line 297 are not
\* characters of the texts checked
is_vowel(char) ==
    char \in { "a", "e", "i", "o", "u", "y", "A", "E", "I", "O", "U", "Y" }

is_consonant(char) == ~is_vowel(char) /\ IsAlpha(char)

\* ------------------------------------------------------------------
\* process_character_points (lines 419-471)
\* ------------------------------------------------------------------
RECURSIVE PointCount(_)
PointCount(strokes) ==
    IF strokes = << >> THEN 0 ELSE Len(Head(strokes)) + PointCount(Tail(strokes))

\* the points of strokes before stroke s: the jitter values already consumed
PointsBefore(strokes, s) == PointCount(SubSeq(strokes, 1, s - 1))

\* lines 448-466 for one raw point and its two jitter values
StrokePoint(point, vx, vy, character_x_offset, character_y_offset, character_height_offset, character_skew) ==
    LET stroke_point_x_offset == RoundDiv(max_stroke_point_x_variance * vx, 100)
        stroke_point_y_offset == RoundDiv(max_stroke_point_y_variance * vy, 100)
        skew_x_offset ==
            RoundDiv((stroke_point_y_offset - point[2]) * character_skew, 100)
        height == capital_character_height + character_height_offset
        point_x == RoundDiv(point[1] * height, 100) + character_x_offset
                   + stroke_point_x_offset + skew_x_offset
        point_y == RoundDiv((-point[2]) * height, 100) + character_y_offset
                   + stroke_point_y_offset
        point_z == pen_down_min
                   + RoundDiv(point[3] * (pen_down_max - pen_down_min), 100)
    IN  << point_x, point_y, point_z, point[4] >>

\* line 457
RelativeX(point, vx, character_height_offset) ==
    RoundDiv(point[1] * (capital_character_height + character_height_offset), 100)
    + RoundDiv(max_stroke_point_x_variance * vx, 100)

\* version is the index random.choice picks among the stroke-variants.
\* Result: error ("none" or the exception raised), character_strokes,
\* max_x_value, character_cursive.
process_character_points(character, character_x_offset, character_y_offset, character_height_offset, character_skew, version, seed) ==
    LET character_versions == FontGet(character)
    IN  IF character_versions = << >>
        THEN [error |-> "IndexError", character_strokes |-> << >>,
              max_x_value |-> 0, character_cursive |-> FALSE]
        ELSE
        LET strokes == character_versions[1 + version]
            number_of_stroke_points == PointCount(strokes)
            variances == interpolate_random(number_of_stroke_points,
                                            new_point_variance, seed)
            Jitter(s, p) == variances[PointsBefore(strokes, s) + p]
            relative == [s \in 1..Len(strokes) |->
                            [p \in 1..Len(strokes[s]) |->
                                RelativeX(strokes[s][p], Jitter(s, p),
                                          character_height_offset)]]
            stroke_max == [s \in 1..Len(strokes) |-> SeqMax(relative[s])]
            widest == SeqMax(stroke_max)
        IN  [error |-> "none",
             character_strokes |->
                [s \in 1..Len(strokes) |->
                    [p \in 1..Len(strokes[s]) |->
                        StrokePoint(strokes[s][p], Jitter(s, p), Jitter(s, p),
                                    character_x_offset, character_y_offset,
                                    character_height_offset, character_skew)]],
             max_x_value |-> IF widest > 0 THEN widest ELSE 0,
             character_cursive |-> character_versions[1]]

\* the number of stroke-variants random.choice picks from
VersionCount(character) ==
    IF FontGet(character) = << >> THEN 1 ELSE Len(FontGet(character)) - 1

\* ------------------------------------------------------------------
\* Emission of one point series
\* ------------------------------------------------------------------
\* first_point_gcode with line 338 raising to the printing height, not pen_up
first_point_gcode_low(e, point) ==
    LET e1 == AppendGcode(e, ZF(pen_down_min, PerMinute(z_travel_speed)), TRUE)
        e2 == AppendGcode(e1, XYF(point[1], point[2], PerMinute(xy_travel_speed)), TRUE)
    IN  AppendGcode(e2, ZF(point[3], PerMinute(z_travel_speed)), TRUE)

\* first_point_gcode (lines 334-340): raise, rapid XY move, plunge
first_point_gcode(e, point) ==
    LET e1 == AppendGcode(e, ZF(pen_up, PerMinute(z_travel_speed)), TRUE)
        e2 == AppendGcode(e1, XYF(point[1], point[2], PerMinute(xy_travel_speed)), TRUE)
    IN  AppendGcode(e2, ZF(point[3], PerMinute(z_travel_speed)), TRUE)

\* continious_gcode (lines 343-354); index counts from 1 here
continious_gcode(e, index, point, stroke_points) ==
    IF index = 1 \/ e.error # "none" THEN e
    ELSE LET previous_point == stroke_points[index - 1]
             time_difference == point[4] - previous_point[4]
             distance == Distance(previous_point, point)
         IN  IF time_difference = 0
             THEN [e EXCEPT !.error = "ZeroDivisionError"]
             ELSE AppendGcode(e, XYZF(point[1], point[2], point[3],
                                      RoundDiv(distance * 600, time_difference)),
                              FALSE)

\* ------------------------------------------------------------------
\* create_gcode (lines 357-416)
\* ------------------------------------------------------------------
\* the arrays of lines 361-371, as one record
NewArrays ==
    [interpolation_x |-> << >>, interpolation_count |-> 1, strokes_enum |-> << >>,
     x |-> << >>, y |-> << >>, z |-> << >>, times |-> << >>, max_time |-> 0]

\* lines 375-386: one stroke; the test of line 383 compares the point lists
AddStroke(a, stroke_points, last_stroke) ==
    LET n == Len(stroke_points)
        b == [a EXCEPT
                !.interpolation_x = @ \o [p \in 1..n |-> a.interpolation_count + p - 1],
                !.x = @ \o [p \in 1..n |-> stroke_points[p][1]],
                !.y = @ \o [p \in 1..n |-> stroke_points[p][2]],
                !.z = @ \o [p \in 1..n |-> stroke_points[p][3]],
                !.times = @ \o [p \in 1..n |-> stroke_points[p][4] + a.max_time],
                !.interpolation_count = @ + n]
    IN  IF stroke_points # last_stroke
        THEN [b EXCEPT !.max_time = SeqMax(b.times) + settle_gap,
                       !.strokes_enum = Append(@, b.interpolation_count)]
        ELSE [b EXCEPT !.max_time = SeqMax(b.times)]

RECURSIVE AddStrokes(_, _, _)
AddStrokes(a, character_strokes, s) ==
    IF s > Len(character_strokes) THEN a
    ELSE AddStrokes(AddStroke(a, character_strokes[s], Last(character_strokes)),
                    character_strokes, s + 1)

\* lines 392-394: the timestamps of the bridge samples
RECURSIVE AddBridgeTimes(_, _)
AddBridgeTimes(a, i) ==
    IF i = 0 THEN a
    ELSE LET t == RoundDiv(a.max_time * cursive_connection_points
                           + cursive_connection_time, cursive_connection_points)
             times == Append(a.times, t)
         IN  AddBridgeTimes([a EXCEPT !.times = times, !.max_time = SeqMax(times)],
                            i - 1)

\* lines 373-402: one character; the tests of lines 389 and 398 compare the
\* stroke lists
AddCharacter(a, word_strokes, cursive_array, word, index) ==
    LET character_strokes == word_strokes[index]
        b == AddStrokes(a, character_strokes, 1)
    IN  IF character_strokes # Last(word_strokes) /\ cursive_array[index]
           /\ IsAlpha(word[index + 1])
        THEN LET c == AddBridgeTimes(
                        [b EXCEPT !.interpolation_count = @ + cursive_connection_points],
                        cursive_connection_points)
             IN  [c EXCEPT !.max_time = @ + settle_gap]
        ELSE IF character_strokes # Last(word_strokes)
        THEN [b EXCEPT !.max_time = SeqMax(b.times) + settle_gap,
                       !.strokes_enum = Append(@, b.interpolation_count)]
        ELSE b

RECURSIVE AddCharacters(_, _, _, _, _)
AddCharacters(a, word_strokes, cursive_array, word, index) ==
    IF index > Len(word_strokes) THEN a
    ELSE AddCharacters(AddCharacter(a, word_strokes, cursive_array, word, index),
                       word_strokes, cursive_array, word, index + 1)

\* interpolate (lines 322-331): the spline through (x[k], y[k]), evaluated at
\* 1..max(x).  At a knot it returns the knot's value.  Off the knots (the
\* bridge samples) its value is the chord's plus a deviation the other knots
\* decide; dev stands for it.
interpolate(x, y, dev) ==
    [j \in 1..SeqMax(x) |->
        IF \E k \in 1..Len(x) : x[k] = j
        THEN y[CHOOSE k \in 1..Len(x) : x[k] = j]
        ELSE LET k == CHOOSE k \in 1..(Len(x) - 1) : x[k] < j /\ j < x[k + 1]
             IN  y[k] + RoundDiv((y[k + 1] - y[k]) * (j - x[k]), x[k + 1] - x[k])
                 + dev]

\* zip of line 409
Zip4(xs, ys, zs, ts) ==
    LET n == SeqMin(<< Len(xs), Len(ys), Len(zs), Len(ts) >>)
    IN  [i \in 1..n |-> << xs[i], ys[i], zs[i], ts[i] >>]

\* lines 405-409: the point series of a word
WordPoints(word_strokes, cursive_array, word, dev) ==
    LET a == AddCharacters(NewArrays, word_strokes, cursive_array, word, 1)
    IN  Zip4(interpolate(a.interpolation_x, a.x, dev),
             interpolate(a.interpolation_x, a.y, dev),
             interpolate(a.interpolation_x, a.z, dev),
             a.times)

\* line 385, 400: the indices that open a new toolpath segment
StrokesEnum(word_strokes, cursive_array, word) ==
    AddCharacters(NewArrays, word_strokes, cursive_array, word, 1).strokes_enum

InSeq(v, s) == \E k \in 1..Len(s) : s[k] = v

\* lines 413-416: the loop body for one point, then the loop over the
\* points from..to in order (halved, so that the nesting stays shallow); an
\* exception ends the loop
EmitPoint(e, points, strokes_enum, index) ==
    IF InSeq(index, strokes_enum) /\ index # 1
    THEN first_point_gcode(e, points[index])
    ELSE continious_gcode(e, index, points[index], points)

RECURSIVE EmitPoints(_, _, _, _, _)
EmitPoints(e, points, strokes_enum, from, to) ==
    IF from > to THEN e
    ELSE IF from = to THEN EmitPoint(e, points, strokes_enum, from)
    ELSE LET mid == (from + to) \div 2
             half == EmitPoints(e, points, strokes_enum, from, mid)
         IN  IF half.error # "none" THEN half
             ELSE EmitPoints(half, points, strokes_enum, mid + 1, to)

create_gcode(e, word_strokes, cursive_array, word, dev) ==
    LET points == WordPoints(word_strokes, cursive_array, word, dev)
    IN  EmitPoints(first_point_gcode(e, points[1]), points,
                   StrokesEnum(word_strokes, cursive_array, word), 1, Len(points))

\* ------------------------------------------------------------------
\* Layout of the characters of one word (lines 592-608; lines 512-528 for
\* the date)
\* ------------------------------------------------------------------
NarrowCapitals == { "T", "F", "P", "Y", "V" }

\* One pass of the loop body.  l holds error, word_strokes, cursive_array,
\* character_x_offset and the four variance arrays.
LayoutCharacter(l, character, y_offset, version, seed) ==
    IF l.error # "none" THEN l
    ELSE IF l.x_variances = << >> THEN [l EXCEPT !.error = "IndexError"]
    ELSE
    LET character_x_offset ==
            l.character_x_offset + RoundDiv(max_x_variance * l.x_variances[1], 100)
        character_y_offset ==
            y_offset + RoundDiv(max_y_variance * l.y_variances[1], 100)
        character_height_offset ==
            RoundDiv(max_height_variance * l.height_variances[1], 100)
        character_skew ==
            min_skew + RoundDiv((l.skew_variances[1] + 100) * (max_skew - min_skew), 200)
        r == process_character_points(character, character_x_offset,
                                      character_y_offset, character_height_offset,
                                      character_skew, version, seed)
        m == [l EXCEPT !.x_variances = remove_first(@),
                       !.y_variances = remove_first(@),
                       !.height_variances = remove_first(@),
                       !.skew_variances = remove_first(@),
                       !.character_x_offset = character_x_offset]
    IN  IF r.error # "none" THEN [m EXCEPT !.error = r.error]
        ELSE [m EXCEPT
                !.word_strokes = Append(@, r.character_strokes),
                !.cursive_array = Append(@, r.character_cursive),
                !.character_x_offset =
                    IF character \in NarrowCapitals
                    THEN character_x_offset + r.max_x_value
                    ELSE character_x_offset + x_spacing + r.max_x_value]

RECURSIVE LayoutCharacters(_, _, _, _, _, _)
LayoutCharacters(l, word, y_offset, versions, seed, index) ==
    IF index > Len(word) THEN l
    ELSE LayoutCharacters(
            LayoutCharacter(l, word[index], y_offset, versions[index], seed),
            word, y_offset, versions, seed, index + 1)

NewLayout(x_offset, xv, yv, hv, sv) ==
    [error |-> "none", word_strokes |-> << >>, cursive_array |-> << >>,
     character_x_offset |-> x_offset,
     x_variances |-> xv, y_variances |-> yv,
     height_variances |-> hv, skew_variances |-> sv]

\* the stroke-variant choices random.choice can make for the characters of word
VersionChoices(word) ==
    { v \in [1..Len(word) -> 1..2] :
        \A i \in 1..Len(word) : v[i] <= VersionCount(word[i]) }

\* all points of a word (lines 610, 624, 644)
RECURSIVE Flatten(_)
Flatten(ss) == IF ss = << >> THEN << >> ELSE Head(ss) \o Flatten(Tail(ss))

AllPoints(word_strokes) == Flatten(Flatten(word_strokes))

x_values(word_strokes) ==
    LET pts == AllPoints(word_strokes) IN [i \in 1..Len(pts) |-> pts[i][1]]

y_values(word_strokes) ==
    LET pts == AllPoints(word_strokes) IN [i \in 1..Len(pts) |-> pts[i][2]]

\* the three nested loops leaving out the last stroke of every character
ShiftWordButLastStroke(word_strokes, dx, dy) ==
    [c \in 1..Len(word_strokes) |->
        [s \in 1..Len(word_strokes[c]) |->
            [p \in 1..Len(word_strokes[c][s]) |->
                LET pt == word_strokes[c][s][p]
                IN  IF s = Len(word_strokes[c]) /\ s > 1 THEN pt
                    ELSE << pt[1] + dx, pt[2] + dy, pt[3], pt[4] >>]]]

\* lines 613-617 and 627-630: the three nested loops over the word's points
ShiftWord(word_strokes, dx, dy) ==
    [c \in 1..Len(word_strokes) |->
        [s \in 1..Len(word_strokes[c]) |->
            [p \in 1..Len(word_strokes[c][s]) |->
                LET pt == word_strokes[c][s][p]
                IN  << pt[1] + dx, pt[2] + dy, pt[3], pt[4] >>]]]

LeftMargin == page_x_buffer + page_x_offset

RightMargin == page_x_offset + page_width - page_width_buffer

TopLine == print_bed_height - page_y_offset

\* ------------------------------------------------------------------
\* Mistake injection (lines 549-566)
\* ------------------------------------------------------------------
\* re.findall(r'\S+|\s+', line): the maximal runs of blanks and of non-blanks
RECURSIVE Tokens(_, _)
Tokens(line, done) ==
    IF line = << >> THEN done
    ELSE IF done # << >> /\ ((Last(done)[1] = " ") <=> (Head(line) = " "))
    THEN Tokens(Tail(line),
                [done EXCEPT ![Len(done)] = Append(@, Head(line))])
    ELSE Tokens(Tail(line), Append(done, << Head(line) >>))

raw_words(line) == Tokens(line, << >>)

\* word.replace(" ", "") == ""
IsBlank(word) == \A i \in 1..Len(word) : word[i] = " "

\* line 560 with the slice taken through word[mistake_pos], not up to it
MisspellThrough(word, mistake_pos) ==
    SubSeq(word, 1, mistake_pos + 1) \o << Last(word) >>

\* line 560; mistake_pos counts from 0
Misspell(word, mistake_pos) == SubSeq(word, 1, mistake_pos) \o << Last(word) >>

\* line 559; word[mistake_pos] is the model's word[mistake_pos + 1]
MistakeAllowed(word, mistake_pos) ==
    LET c == word[mistake_pos + 1]
        last_character == Last(word)
    IN  /\ c # last_character
        /\ \/ is_vowel(c) /\ is_vowel(last_character)
           \/ is_consonant(c) /\ is_consonant(last_character)

\* the two sides of random.randint(1, 100) <= word_crossing_probability * 3
Rolls == { word_crossing_probability * 3, word_crossing_probability * 3 + 1 }

\* the largest value random.randint(3, len(word)-2) can take in the line
LastMistakePos(raw) ==
    LET longest == SeqMax([i \in 1..Len(raw) |-> Len(raw[i])])
    IN  IF longest - 2 > 3 THEN longest - 2 ELSE 3

\* the draws of the loop: for each raw word a roll and a mistake_pos
\* (mistake_pos is drawn only when the roll and the length pass)
Draws(raw) ==
    { d \in [1..Len(raw) -> [roll : Rolls, mistake_pos : 3..LastMistakePos(raw)]] :
        \A i \in 1..Len(raw) :
            IF d[i].roll <= word_crossing_probability * 3 /\ Len(raw[i]) >= 5
               /\ ~IsBlank(raw[i])
            THEN d[i].mistake_pos <= Len(raw[i]) - 2
            ELSE d[i].mistake_pos = 3 }

\* lines 553-566.  injected and mistake_positions are the history of the
\* loop: whether each entry of words was put there by line 562, and the
\* mistake_pos line 558 had drawn for it (0 for the other entries).
RECURSIVE InjectMistakes(_, _, _, _)
InjectMistakes(raw, d, i, w) ==
    IF i > Len(raw) THEN w
    ELSE LET word == raw[i]
             hit == /\ d[i].roll <= word_crossing_probability * 3
                    /\ Len(word) >= 5
                    /\ ~IsBlank(word)
                    /\ MistakeAllowed(word, d[i].mistake_pos)
             misspelled_word == Misspell(word, d[i].mistake_pos)
             w1 == IF hit
                   THEN [words |-> w.words \o << misspelled_word, << " " >> >>,
                         crossed_out_words |-> Append(w.crossed_out_words, misspelled_word),
                         injected |-> w.injected \o << TRUE, FALSE >>,
                         mistake_positions |->
                             w.mistake_positions \o << d[i].mistake_pos, 0 >>]
                   ELSE w
         IN  InjectMistakes(raw, d, i + 1,
                [w1 EXCEPT !.words = Append(@, word),
                           !.injected = Append(@, FALSE),
                           !.mistake_positions = Append(@, 0)])

NoWords ==
    [words |-> << >>, crossed_out_words |-> << >>, injected |-> << >>,
     mistake_positions |-> << >>]

\* ------------------------------------------------------------------
\* The cross-out stroke (lines 644-665)
\* ------------------------------------------------------------------
\* np.linspace(a, b, n)
linspace(a, b, n) == [k \in 1..n |-> a + ((b - a) * (k - 1)) \div (n - 1)]

cross_out_stroke(word, word_strokes, word_y_offset, seed) ==
    LET n == Len(word) * points_per_word_crossing_character
        xs == x_values(word_strokes)
        raw_cross_out_stroke_y == interpolate_random(n, new_point_variance, seed)
        cross_out_stroke_x == linspace(SeqMin(xs) - word_crossing_x_overhang,
                                       SeqMax(xs) + word_crossing_x_overhang, n)
        cross_out_stroke_force == interpolate_random(n, new_point_variance, seed)
        cross_out_stroke_time == linspace(0, Len(word) * time_per_word_crossing_character, n)
        cross_out_stroke_y ==
            [i \in 1..Len(raw_cross_out_stroke_y) |->
                word_y_offset
                + RoundDiv(word_crossing_y_height * capital_character_height, 100)
                + RoundDiv(raw_cross_out_stroke_y[i] * max_word_crossing_point_variance, 100)]
        cross_out_stroke_z ==
            [i \in 1..Len(cross_out_stroke_force) |->
                LET force == RoundDiv((cross_out_stroke_force[i] + 100)
                                      * (max_word_crossing_force - min_word_crossing_force), 200)
                             + min_word_crossing_force
                IN  pen_down_min + RoundDiv(force * (pen_down_max - pen_down_min), 100)]
    IN  [index \in 1..Len(cross_out_stroke_time) |->
            << cross_out_stroke_x[index], cross_out_stroke_y[index],
               cross_out_stroke_z[index], cross_out_stroke_time[index] >>]

\* lines 667-670: the loop body for one point, then the loop over the points
\* from..to in order
EmitStrokePoint(e, stroke, index) ==
    IF index = 1 THEN first_point_gcode(e, stroke[index])
    ELSE continious_gcode(e, index, stroke[index], stroke)

RECURSIVE EmitStroke(_, _, _, _)
EmitStroke(e, stroke, from, to) ==
    IF from > to THEN e
    ELSE IF from = to THEN EmitStrokePoint(e, stroke, from)
    ELSE LET mid == (from + to) \div 2
             half == EmitStroke(e, stroke, from, mid)
         IN  IF half.error # "none" THEN half
             ELSE EmitStroke(half, stroke, mid + 1, to)

\* ------------------------------------------------------------------
\* Page break and end sequences, finalization
\* ------------------------------------------------------------------
\* lines 635-638 with the pause before the pen is raised
PageBreakGcodePauseFirst(e) ==
    LET e1 == AppendLine(e, "PAUSE")
        e2 == AppendGcode(e1, ZF(pen_z_print_start, PerMinute(z_travel_speed)), TRUE)
        e3 == AppendGcode(e2, XYF(pen_x_print_start, pen_y_print_start,
                                  PerMinute(xy_travel_speed)), FALSE)
    IN  AppendInitGcode(e3)

\* lines 635-638
PageBreakGcode(e) ==
    LET e1 == AppendGcode(e, ZF(pen_z_print_start, PerMinute(z_travel_speed)), TRUE)
        e2 == AppendLine(e1, "PAUSE")
        e3 == AppendGcode(e2, XYF(pen_x_print_start, pen_y_print_start,
                                  PerMinute(xy_travel_speed)), FALSE)
    IN  AppendInitGcode(e3)

\* lines 681-682
EndGcode(e) ==
    AppendGcode(AppendGcode(e, ZF(pen_z_print_done, PerMinute(z_travel_speed)), TRUE),
                XYF(pen_x_print_done, pen_y_print_done, PerMinute(xy_travel_speed)), TRUE)

\* list.insert(index, line), index counting from 0
Insert(g, index, line) ==
    IF index >= Len(g) THEN Append(g, line)
    ELSE SubSeq(g, 1, index) \o << line >> \o SubSeq(g, index + 1, Len(g))

\* lines 688-690 for one checkpoint; P is in tenths of a percent
Marker(full_minute_position, print_minutes) ==
    LET remaining_minutes == print_minutes - full_minute_position[2]
    IN  Instr("M73", [P |-> RoundDiv((print_minutes - remaining_minutes) * 1000,
                                     print_minutes),
                      R |-> remaining_minutes])

\* lines 687-690 without reversed(): the checkpoints in the order recorded
RECURSIVE InsertMarkersForward(_, _, _, _)
InsertMarkersForward(g, positions, print_minutes, k) ==
    IF k = 0 THEN g
    ELSE LET j == Len(positions) - k + 1
         IN  InsertMarkersForward(
                Insert(g, positions[j][1], Marker(positions[j], print_minutes)),
                positions, print_minutes, k - 1)

\* lines 687-690: the checkpoints k, k-1, ..., 1 in that order
RECURSIVE InsertMarkers(_, _, _, _)
InsertMarkers(g, positions, print_minutes, k) ==
    IF k = 0 THEN g
    ELSE InsertMarkers(Insert(g, positions[k][1], Marker(positions[k], print_minutes)),
                       positions, print_minutes, k - 1)

\* append_settings (lines 203-265) appends this many comment lines
settings_lines == 56

AppendSettings(e) ==
    [e EXCEPT !.g_code = @ \o [i \in 1..settings_lines |-> Directive(";")]]

\* ------------------------------------------------------------------
\* Inputs: the text, the date and the random state
\* ------------------------------------------------------------------
W_ab == << "a", "b" >>
W_zu == << "z", "u" >>
W_Beil == << "B", "e", "i", "l" >>
W_Tisch == << "T", "i", "s", "c", "h" >>
W_Beispiel == << "B", "e", "i", "s", "p", "i", "e", "l" >>
Blank == << " " >>

\* the empty lines that bring the first word of a text near the page's end
LeadingBlankLines == 22

\* the largest random state; amplitude of the variance curves is 0.5 per unit
MaxSeed == 1

\* the deviations of the spline from the chord at a bridge sample
SplineDeviations == { -30, 0, 30 }

EmptyLines(n) == [i \in 1..n |-> << >>]

ShortTexts ==
    { << W_ab >>,
      << W_ab \o << "?" >> >>,
      << Blank \o W_ab >>,
      << W_zu >>,
      << W_ab \o Blank \o Blank \o W_Tisch >>,
      << W_ab, << >>, Blank \o W_ab \o Blank \o W_ab >> }

LongTexts ==
    { << W_Beispiel >>,
      << W_Beil \o Blank \o W_Beispiel >>,
      << W_Beispiel \o Blank \o W_Beispiel >> }

Texts ==
    ShortTexts \cup LongTexts
    \cup { EmptyLines(n) \o t : n \in { LeadingBlankLines, LeadingBlankLines + 1 },
                                t \in { << W_Tisch >>,
                                        << W_Beispiel \o Blank \o W_Beispiel >> } }

\* date.today().strftime("%d.%b.%y") (lines 498-499)
date_string == << "0", "2", ".", "N", "o", "v", ".", "2", "6" >>

\* ------------------------------------------------------------------
\* State
\* ------------------------------------------------------------------
VARIABLES
    pc,                 \* the statement the script is at
    text,               \* lines: text.splitlines(), each a sequence of characters
    seed,               \* the state of the random generators
    deviation,          \* how far the run's splines leave the chord off the knots
    g_code, current_pos, print_estimate, full_minute_gcode_positions,
    accelerations,      \* history: the acceleration each move was timed with
    error,              \* the exception that ended the run, "none" without one
    line_no,            \* the position of "for line in lines"
    words, crossed_out_words,
    word_no,            \* the position of "for word in words"
    x_variances, y_variances, height_variances, skew_variances,
    word_x_offset, word_y_offset,
    character_x_offset, \* << >> while the name is unbound, << value >> after
    word_strokes, cursive_array,
    injected,           \* history: which entries of words line 562 appended
    mistake_positions,  \* history: the mistake_pos drawn for those entries
    segments            \* history: which statement emitted which lines of g_code

vars ==
    << pc, text, seed, deviation, g_code, current_pos, print_estimate,
       full_minute_gcode_positions, accelerations, error, line_no, words, crossed_out_words,
       word_no, x_variances, y_variances, height_variances, skew_variances,
       word_x_offset, word_y_offset, character_x_offset, word_strokes,
       cursive_array, injected, mistake_positions, segments >>

emitter_vars ==
    << g_code, current_pos, print_estimate, full_minute_gcode_positions, accelerations >>

line_vars == << words, crossed_out_words, injected, mistake_positions >>

variance_vars == << x_variances, y_variances, height_variances, skew_variances >>

cursor_vars == << word_x_offset, word_y_offset, character_x_offset >>

word_vars == << word_strokes, cursive_array >>

Emitter ==
    [g_code |-> g_code, current_pos |-> current_pos,
     print_estimate |-> print_estimate,
     full_minute_gcode_positions |-> full_minute_gcode_positions,
     accelerations |-> accelerations,
     error |-> error]

\* the emitter after a statement, and where the script goes: on to next, or
\* out with the exception
Emitted(e, next) ==
    /\ g_code' = e.g_code
    /\ current_pos' = e.current_pos
    /\ print_estimate' = e.print_estimate
    /\ full_minute_gcode_positions' = e.full_minute_gcode_positions
    /\ accelerations' = e.accelerations
    /\ error' = e.error
    /\ pc' = IF e.error = "none" THEN next ELSE "crashed"

Raise(exception) ==
    /\ error' = exception
    /\ pc' = "crashed"

\* the lines of g_code a statement appended, as a segment of the history,
\* with the positions of the two loops when it ran
Segment(kind, word, by_injector, e) ==
    [kind |-> kind, word |-> word, by_injector |-> by_injector,
     line_no |-> line_no, word_no |-> word_no,
     first |-> Len(g_code) + 1, last |-> Len(e.g_code)]

Init ==
    /\ pc = "start"
    /\ text \in Texts
    /\ seed \in 0..MaxSeed
    /\ deviation \in SplineDeviations
    /\ g_code = << >>
    /\ current_pos = << start_pos, start_pos, start_pos >>
    /\ print_estimate = 0
    /\ full_minute_gcode_positions = << >>
    /\ accelerations = << >>
    /\ error = "none"
    /\ line_no = 1
    /\ words = << >>
    /\ crossed_out_words = << >>
    /\ injected = << >>
    /\ mistake_positions = << >>
    /\ word_no = 1
    /\ x_variances = << >>
    /\ y_variances = << >>
    /\ height_variances = << >>
    /\ skew_variances = << >>
    /\ word_x_offset = LeftMargin
    /\ word_y_offset = TopLine
    /\ character_x_offset = << >>
    /\ word_strokes = << >>
    /\ cursive_array = << >>
    /\ segments = << >>

\* lines 479-491
Startup ==
    /\ pc = "start"
    /\ LET e == AppendInitGcode(AppendSettings(Emitter))
       IN  /\ Emitted(e, "date")
           /\ segments' = Append(segments, Segment("init", << >>, FALSE, e))
    /\ UNCHANGED << text, seed, deviation, line_no, line_vars, word_no, variance_vars,
                    cursor_vars, word_vars >>

\* lines 498-530 (and 537-538, which the initial state already holds)
CreateDate ==
    /\ pc = "date"
    /\ \E versions \in VersionChoices(date_string) :
        LET v == interpolate_random(Len(date_string), new_character_variance, seed)
            l == LayoutCharacters(NewLayout(page_x_offset + date_x_offset, v, v, v, v),
                                  date_string, TopLine, versions, seed, 1)
        IN  IF l.error # "none"
            THEN /\ Raise(l.error)
                 /\ UNCHANGED << emitter_vars, segments >>
            ELSE LET e == create_gcode(Emitter, l.word_strokes, l.cursive_array,
                                       date_string, deviation)
                 IN  /\ Emitted(e, "line")
                     /\ segments' = Append(segments, Segment("date", date_string, FALSE, e))
    /\ UNCHANGED << text, seed, deviation, line_no, line_vars, word_no, variance_vars,
                    cursor_vars, word_vars >>

\* lines 542-547
EmptyLine ==
    /\ pc = "line"
    /\ line_no <= Len(text)
    /\ text[line_no] = << >>
    /\ word_x_offset' = page_x_buffer + page_x_offset
    /\ word_y_offset' = word_y_offset - line_height
    /\ line_no' = line_no + 1
    /\ UNCHANGED << pc, text, seed, deviation, emitter_vars, error, line_vars, word_no,
                    variance_vars, character_x_offset, word_vars, segments >>

\* lines 549-573
StartLine ==
    /\ pc = "line"
    /\ line_no <= Len(text)
    /\ text[line_no] # << >>
    /\ \E d \in Draws(raw_words(text[line_no])) :
        LET w == InjectMistakes(raw_words(text[line_no]), d, 1, NoWords)
            number_of_characters == Len(Flatten(w.words))
            v == interpolate_random(number_of_characters, new_character_variance, seed)
        IN  /\ words' = w.words
            /\ crossed_out_words' = w.crossed_out_words
            /\ injected' = w.injected
            /\ mistake_positions' = w.mistake_positions
            /\ x_variances' = v
            /\ y_variances' = v
            /\ height_variances' = v
            /\ skew_variances' = v
    /\ word_no' = 1
    /\ pc' = "word"
    /\ UNCHANGED << text, seed, deviation, emitter_vars, error, line_no, cursor_vars,
                    word_vars, segments >>

\* lines 579-584: one blank of a blank run.  b holds error, word_x_offset and
\* the variance arrays.
BlankCharacter(b) ==
    IF b.error # "none" THEN b
    ELSE IF character_x_offset = << >> THEN [b EXCEPT !.error = "NameError"]
    ELSE IF b.x_variances = << >> THEN [b EXCEPT !.error = "IndexError"]
    ELSE [b EXCEPT
            !.word_x_offset =
                (IF @ <= character_x_offset[1] THEN character_x_offset[1] ELSE @)
                + space_width + RoundDiv(3 * max_x_variance * b.x_variances[1], 100),
            !.x_variances = remove_first(@),
            !.y_variances = remove_first(@),
            !.height_variances = remove_first(@),
            !.skew_variances = remove_first(@)]

RECURSIVE BlankCharacters(_, _)
BlankCharacters(b, n) == IF n = 0 THEN b ELSE BlankCharacters(BlankCharacter(b), n - 1)

\* lines 577-586
BlankRun ==
    /\ pc = "word"
    /\ word_no <= Len(words)
    /\ IsBlank(words[word_no])
    /\ LET b == BlankCharacters(
                    [error |-> "none", word_x_offset |-> word_x_offset,
                     x_variances |-> x_variances, y_variances |-> y_variances,
                     height_variances |-> height_variances,
                     skew_variances |-> skew_variances],
                    Len(words[word_no]))
       IN  /\ word_x_offset' = b.word_x_offset
           /\ x_variances' = b.x_variances
           /\ y_variances' = b.y_variances
           /\ height_variances' = b.height_variances
           /\ skew_variances' = b.skew_variances
           /\ error' = b.error
           /\ pc' = IF b.error = "none" THEN "word" ELSE "crashed"
           /\ word_no' = IF b.error = "none" THEN word_no + 1 ELSE word_no
    /\ UNCHANGED << text, seed, deviation, emitter_vars, line_no, line_vars, word_y_offset,
                    character_x_offset, word_vars, segments >>

\* lines 588-608
LayoutWord ==
    /\ pc = "word"
    /\ word_no <= Len(words)
    /\ ~IsBlank(words[word_no])
    /\ \E versions \in VersionChoices(words[word_no]) :
        LET l == LayoutCharacters(
                    NewLayout(word_x_offset, x_variances, y_variances,
                              height_variances, skew_variances),
                    words[word_no], word_y_offset, versions, seed, 1)
        IN  /\ word_strokes' = l.word_strokes
            /\ cursive_array' = l.cursive_array
            /\ character_x_offset' = << l.character_x_offset >>
            /\ x_variances' = l.x_variances
            /\ y_variances' = l.y_variances
            /\ height_variances' = l.height_variances
            /\ skew_variances' = l.skew_variances
            /\ error' = l.error
            /\ pc' = IF l.error = "none" THEN "wrap" ELSE "crashed"
    /\ UNCHANGED << text, seed, deviation, emitter_vars, line_no, line_vars, word_no,
                    word_x_offset, word_y_offset, segments >>

\* line 612
MustWrap == SeqMax(x_values(word_strokes)) >= RightMargin

\* lines 612-622
Wrap ==
    /\ pc = "wrap"
    /\ MustWrap
    /\ LET shift == word_x_offset - page_x_buffer - page_x_offset
       IN  /\ word_strokes' = ShiftWord(word_strokes, -shift, -line_height)
           /\ character_x_offset' = << character_x_offset[1] - shift >>
    /\ word_x_offset' = page_x_buffer + page_x_offset
    /\ word_y_offset' = word_y_offset - line_height
    /\ pc' = "page"
    /\ UNCHANGED << text, seed, deviation, emitter_vars, error, line_no, line_vars, word_no,
                    variance_vars, cursive_array, segments >>

NoWrap ==
    /\ pc = "wrap"
    /\ ~MustWrap
    /\ pc' = "page"
    /\ UNCHANGED << text, seed, deviation, emitter_vars, error, line_no, line_vars, word_no,
                    variance_vars, cursor_vars, word_vars, segments >>

\* line 626
MustBreakPage == SeqMin(y_values(word_strokes)) <= 0 + page_height_buffer

\* lines 626-638
PageBreak ==
    /\ pc = "page"
    /\ MustBreakPage
    /\ word_strokes' =
            ShiftWord(word_strokes, 0, print_bed_height - (word_y_offset + page_y_offset))
    /\ word_y_offset' = print_bed_height - page_y_offset
    /\ LET e == PageBreakGcode(Emitter)
       IN  /\ Emitted(e, "emit")
           /\ segments' = Append(segments,
                                 Segment("pagebreak", words[word_no], FALSE, e))
    /\ UNCHANGED << text, seed, deviation, line_no, line_vars, word_no, variance_vars,
                    word_x_offset, character_x_offset, cursive_array >>

NoPageBreak ==
    /\ pc = "page"
    /\ ~MustBreakPage
    /\ pc' = "emit"
    /\ UNCHANGED << text, seed, deviation, emitter_vars, error, line_no, line_vars, word_no,
                    variance_vars, cursor_vars, word_vars, segments >>

\* line 640
EmitWord ==
    /\ pc = "emit"
    /\ LET e == create_gcode(Emitter, word_strokes, cursive_array,
                             words[word_no], deviation)
       IN  /\ Emitted(e, "cross")
           /\ segments' = Append(segments,
                                 Segment("word", words[word_no], injected[word_no], e))
    /\ UNCHANGED << text, seed, deviation, line_no, line_vars, word_no, variance_vars,
                    cursor_vars, word_vars >>

\* line 642 testing the word before the last blank rather than this word
MustCrossOutCorrected ==
    /\ word_no > 2
    /\ injected[word_no - 2]

\* line 642
MustCrossOut == InSeq(words[word_no], crossed_out_words)

\* lines 642-670
CrossOut ==
    /\ pc = "cross"
    /\ MustCrossOut
    /\ LET stroke == cross_out_stroke(words[word_no], word_strokes, word_y_offset, seed)
           e == EmitStroke(Emitter, stroke, 1, Len(stroke))
       IN  /\ Emitted(e, "word")
           /\ segments' = Append(segments,
                                 Segment("strike", words[word_no], injected[word_no], e))
    /\ word_no' = word_no + 1
    /\ UNCHANGED << text, seed, deviation, line_no, line_vars, variance_vars, cursor_vars,
                    word_vars >>

NoCrossOut ==
    /\ pc = "cross"
    /\ ~MustCrossOut
    /\ pc' = "word"
    /\ word_no' = word_no + 1
    /\ UNCHANGED << text, seed, deviation, emitter_vars, error, line_no, line_vars,
                    variance_vars, cursor_vars, word_vars, segments >>

\* lines 673-674
EndLine ==
    /\ pc = "word"
    /\ word_no > Len(words)
    /\ word_x_offset' = page_x_offset + page_x_buffer
    /\ word_y_offset' = word_y_offset - line_height
    /\ line_no' = line_no + 1
    /\ pc' = "line"
    /\ UNCHANGED << text, seed, deviation, emitter_vars, error, line_vars, word_no,
                    variance_vars, character_x_offset, word_vars, segments >>

\* lines 681-682
EndSequence ==
    /\ pc = "line"
    /\ line_no > Len(text)
    /\ LET e == EndGcode(Emitter)
       IN  /\ Emitted(e, "finalize")
           /\ segments' = Append(segments, Segment("end", << >>, FALSE, e))
    /\ UNCHANGED << text, seed, deviation, line_no, line_vars, word_no, variance_vars,
                    cursor_vars, word_vars >>

\* line 684
print_minutes == print_estimate \div minute

\* lines 684-690
Finalize ==
    /\ pc = "finalize"
    /\ IF full_minute_gcode_positions # << >> /\ print_minutes = 0
       THEN /\ Raise("ZeroDivisionError")
            /\ UNCHANGED g_code
       ELSE /\ g_code' = InsertMarkers(g_code, full_minute_gcode_positions,
                                       print_minutes,
                                       Len(full_minute_gcode_positions))
            /\ pc' = "done"
            /\ UNCHANGED error
    /\ UNCHANGED << text, seed, deviation, current_pos, print_estimate,
                    full_minute_gcode_positions, accelerations, line_no, line_vars, word_no,
                    variance_vars, cursor_vars, word_vars, segments >>

Next ==
    \/ Startup
    \/ CreateDate
    \/ EmptyLine
    \/ StartLine
    \/ BlankRun
    \/ LayoutWord
    \/ Wrap
    \/ NoWrap
    \/ PageBreak
    \/ NoPageBreak
    \/ EmitWord
    \/ CrossOut
    \/ NoCrossOut
    \/ EndLine
    \/ EndSequence
    \/ Finalize

Spec == Init /\ [][Next]_vars

\* ------------------------------------------------------------------
\* Properties
\* ------------------------------------------------------------------
\* the entries of words that line 562 put there
Injected == { k \in 1..Len(words) : injected[k] }

\* words[k] is word[0..i] followed by word's last character, i counting from 0
ThroughAndLast(k, word, i) ==
    /\ Len(words[k]) = i + 2
    /\ \A j \in 1..(i + 1) : words[k][j] = word[j]
    /\ words[k][i + 2] = word[Len(word)]

\* words[k] is word[0..i-1] followed by word's last character
UpToAndLast(k, word, i) ==
    /\ Len(words[k]) = i + 1
    /\ \A j \in 1..i : words[k][j] = word[j]
    /\ words[k][i + 1] = word[Len(word)]

\* words[k] stands before the word it misspells, one space between them
BeforeCorrectWord(k) ==
    /\ k + 2 <= Len(words)
    /\ words[k + 1] = << " " >>
    /\ ~injected[k + 1]
    /\ ~injected[k + 2]
    /\ ~IsBlank(words[k + 2])
    /\ Len(words[k + 2]) >= 5

\* C1 as stated: an injected misspelling of a word w with drawn index i is
\* w[0..i] followed by w's last character ("Beispiel", i = 3 gives "Beisl"),
\* and stands before the correct word with one space between them.
C1_ThroughIndex ==
    \A k \in Injected :
        /\ BeforeCorrectWord(k)
        /\ ThroughAndLast(k, words[k + 2], mistake_positions[k])

\* C1 amended: an injected misspelling of a word w with drawn index i is the
\* first i characters w[0..i-1] followed by w's last character ("Beispiel",
\* i = 3 gives "Beil"; "Beisl" is what i = 4 gives), the drawn i is in
\* 3..len(w)-2, and the misspelling stands before the correct word with one
\* space between them.
C1_UpToIndex ==
    \A k \in Injected :
        /\ BeforeCorrectWord(k)
        /\ mistake_positions[k] \in 3..(Len(words[k + 2]) - 2)
        /\ UpToAndLast(k, words[k + 2], mistake_positions[k])
        /\ InSeq(words[k], crossed_out_words)

\* the line "Beispiel" with the index 3 drawn: words is Beil, blank, Beispiel
C1_Witness ==
    /\ pc = "word"
    /\ words = << W_Beil, Blank, W_Beispiel >>
    /\ injected = << TRUE, FALSE, FALSE >>
    /\ mistake_positions[1] = 3

\* the segments of one kind, as positions in the history
SegmentsOf(kind) == { s \in 1..Len(segments) : segments[s].kind = kind }

\* the segments that render a misspelling line 562 injected
MisspelledSegments == { s \in SegmentsOf("word") : segments[s].by_injector }

\* segment t renders the correct word of the misspelling of segment s
CorrectWordOf(s, t) ==
    /\ segments[t].kind = "word"
    /\ segments[t].line_no = segments[s].line_no
    /\ segments[t].word_no = segments[s].word_no + 2

\* segment t is the strike-through of the word of segment s
StrikeOf(s, t) ==
    /\ segments[t].kind = "strike"
    /\ segments[t].line_no = segments[s].line_no
    /\ segments[t].word_no = segments[s].word_no

\* C2 as stated: for an injected mistake the moves come in the order
\* misspelled word, correct word, strike-through; no strike-through move is
\* emitted between the misspelled word and the correct word.
C2_StrikeAfterCorrectWord ==
    \A s \in MisspelledSegments :
        \A t \in 1..Len(segments) :
            StrikeOf(s, t) =>
                \E c \in 1..Len(segments) : CorrectWordOf(s, c) /\ c < t

\* C2 amended: for an injected mistake the moves come in the order
\* misspelled word, strike-through, correct word: the strike-through's moves
\* follow the misspelled word's last move directly, and every move of the
\* correct word (and of a page break before it) comes after the
\* strike-through's last move.
C2_StrikeBeforeCorrectWord ==
    \A s \in MisspelledSegments :
        /\ s < Len(segments) =>
                /\ StrikeOf(s, s + 1)
                /\ segments[s + 1].word = segments[s].word
                /\ segments[s + 1].first = segments[s].last + 1
        /\ \A c \in 1..Len(segments) :
                CorrectWordOf(s, c) =>
                    /\ c > s + 1
                    /\ segments[c].first > segments[s + 1].last
                    /\ \A t \in (s + 2)..(c - 1) : segments[t].kind = "pagebreak"
        /\ (pc = "done" => \E c \in 1..Len(segments) : CorrectWordOf(s, c))

\* a finished run that rendered a misspelling, struck it and rendered the
\* correct word
C2_Witness ==
    /\ pc = "done"
    /\ \E s \in MisspelledSegments :
        /\ StrikeOf(s, s + 1)
        /\ segments[s + 1].last > segments[s + 1].first
        /\ CorrectWordOf(s, s + 2)
        /\ segments[s + 2].last > segments[s + 2].first

\* the characters of the words of the line that are still to be laid out
CharactersLeft == Len(Flatten(SubSeq(words, word_no, Len(words))))

\* C3: interpolate_random(N, S) returns exactly N values: every variance
\* sequence of a line holds one value per character still to be laid out
\* (N values when the line starts, none when it ends).
C3_ExactlyN ==
    pc = "word" =>
        /\ Len(x_variances) = CharactersLeft
        /\ Len(y_variances) = CharactersLeft
        /\ Len(height_variances) = CharactersLeft
        /\ Len(skew_variances) = CharactersLeft

\* the instructions of g_code that are no progress markers
Program == SelectSeq(g_code, LAMBDA m : m.op # "M73")

IsMove(m, op, operands) == m.op = op /\ DOMAIN m.args = operands

\* the three travel moves of first_point_gcode
IsRaise(m) == IsMove(m, "G0", { "Z", "F" }) /\ m.args.Z = pen_up

IsRapid(m) == IsMove(m, "G0", { "X", "Y", "F" })

IsPlunge(m) ==
    /\ IsMove(m, "G0", { "Z", "F" })
    /\ pen_down_max <= m.args.Z
    /\ m.args.Z <= pen_down_min

\* instruction i was emitted by a statement of one of the kinds
EmittedBy(i, kinds) ==
    \E s \in 1..Len(segments) :
        /\ segments[s].kind \in kinds
        /\ segments[s].first <= i
        /\ i <= segments[s].last

\* C4 as stated: every travel move (G0) that carries a Z operand has
\* z = pen_up.
C4_TravelZIsPenUp ==
    \A i \in 1..Len(g_code) :
        (g_code[i].op = "G0" /\ Has(g_code[i].args, "Z")) =>
            g_code[i].args.Z = pen_up

\* C4 amended: a G0 that carries a Z operand carries no X or Y operand and is
\* one of three things: the raise of a pen lift, with z = pen_up and followed
\* by the rapid XY move; the plunge of a pen lift, which follows that rapid
\* XY move and has the z of the point the pen is lowered onto (a pen-down
\* height, not pen_up); or the move to pen_z_print_start / pen_z_print_done
\* of the start, page-break and end sequences.  Every rapid XY move of a
\* word, the date or a strike-through follows a raise to pen_up.
C4_TravelZOfPenLift ==
    LET p == Program
    IN  \A i \in 1..Len(p) :
            /\ (p[i].op = "G0" /\ Has(p[i].args, "Z")) =>
                    /\ DOMAIN p[i].args = { "Z", "F" }
                    /\ \/ /\ IsRaise(p[i])
                          /\ EmittedBy(i, { "word", "date", "strike" })
                          /\ i + 2 <= Len(p)
                          /\ IsRapid(p[i + 1])
                          /\ IsPlunge(p[i + 2])
                       \/ /\ IsPlunge(p[i])
                          /\ EmittedBy(i, { "word", "date", "strike" })
                          /\ i > 2
                          /\ IsRapid(p[i - 1])
                          /\ IsRaise(p[i - 2])
                       \/ /\ p[i].args.Z = pen_z_print_start
                          /\ EmittedBy(i, { "init", "pagebreak" })
                       \/ /\ p[i].args.Z = pen_z_print_done
                          /\ EmittedBy(i, { "end" })
            /\ (IsRapid(p[i]) /\ EmittedBy(i, { "word", "date", "strike" })) =>
                    /\ i > 1
                    /\ IsRaise(p[i - 1])

\* a word has been rendered: its first three instructions are a pen lift
\* whose plunge is below pen_up
C4_Witness ==
    \E s \in SegmentsOf("word") :
        /\ segments[s].last >= segments[s].first + 3
        /\ IsRaise(g_code[segments[s].first])
        /\ IsPlunge(g_code[segments[s].first + 2])
        /\ g_code[segments[s].first + 2].args.Z # pen_up
        /\ g_code[segments[s].first + 3].op = "G1"

\* the z the pen is at when instruction i of p starts
ZBefore(p, i) ==
    LET set == { j \in 1..(i - 1) : Has(p[j].args, "Z") \/ p[j].op = "G28Z" }
    IN  IF set = {} THEN start_pos
        ELSE LET j == CHOOSE j \in set : \A k \in set : k <= j
             IN  IF p[j].op = "G28Z" THEN pen_z_print_start ELSE p[j].args.Z

\* the z instruction i of p is executed at: its Z operand, or the z before it
ZOf(p, i) == IF Has(p[i].args, "Z") THEN p[i].args.Z ELSE ZBefore(p, i)

\* C5: every print move (G1) is executed at a z within the pen-down bounds
\* [pen_down_max, pen_down_min].
C5_PrintMovesWithinPenDown ==
    \A i \in 1..Len(g_code) :
        g_code[i].op = "G1" =>
            /\ pen_down_max <= ZOf(g_code, i)
            /\ ZOf(g_code, i) <= pen_down_min

\* the arrays create_gcode builds for the word that is about to be rendered
WordArrays == AddCharacters(NewArrays, word_strokes, cursive_array, words[word_no], 1)

StrictlyIncreasing(ts) == \A i \in 1..(Len(ts) - 1) : ts[i] < ts[i + 1]

\* C6: the timestamps of a word's trajectory are strictly increasing, one per
\* resampled point, and so are those of a strike-through stroke.
C6_TimestampsIncrease ==
    /\ pc = "emit" =>
            /\ Len(WordArrays.times) = SeqMax(WordArrays.interpolation_x)
            /\ StrictlyIncreasing(WordArrays.times)
    /\ (pc = "cross" /\ MustCrossOut) =>
            LET stroke == cross_out_stroke(words[word_no], word_strokes,
                                           word_y_offset, seed)
            IN  StrictlyIncreasing([i \in 1..Len(stroke) |-> stroke[i][4]])

\* after is before with every point moved by (dx, dy), z and time kept
Translated(before, after, dx, dy) ==
    /\ Len(after) = Len(before)
    /\ \A c \in 1..Len(before) :
        /\ Len(after[c]) = Len(before[c])
        /\ \A s \in 1..Len(before[c]) :
            /\ Len(after[c][s]) = Len(before[c][s])
            /\ \A q \in 1..Len(before[c][s]) :
                after[c][s][q] = << before[c][s][q][1] + dx, before[c][s][q][2] + dy,
                                   before[c][s][q][3], before[c][s][q][4] >>

\* C7: when a laid-out word's rightmost x exceeds the right margin, the next
\* step translates every point of every stroke of every character by
\* (cursor before the word - left margin) to the left and one line height
\* down, once; the horizontal cursor becomes the left margin and the vertical
\* cursor drops by one line height.
C7_WrapTranslatesWord ==
    [][ (pc = "wrap" /\ SeqMax(x_values(word_strokes)) > RightMargin) =>
            /\ pc' = "page"
            /\ Translated(word_strokes, word_strokes',
                          -(word_x_offset - LeftMargin), -line_height)
            /\ word_x_offset' = LeftMargin
            /\ word_y_offset' = word_y_offset - line_height
            /\ g_code' = g_code ]_vars

\* a word that is not the first of its line stands at the left margin of the
\* second line after the wrap check: it was wrapped
C7_Witness ==
    /\ pc = "page"
    /\ line_no = 1
    /\ word_no > 1
    /\ word_x_offset = LeftMargin
    /\ word_y_offset = TopLine - line_height
    /\ SeqMin(x_values(word_strokes)) >= LeftMargin - capital_character_height
    /\ SeqMax(x_values(word_strokes)) < RightMargin

\* the word that is being laid out has a character the font does not hold
AbsentCharacter ==
    /\ word_no <= Len(words)
    /\ \E i \in 1..Len(words[word_no]) :
            words[word_no][i] # " " /\ FontGet(words[word_no][i]) = << >>

\* C8: a character absent from the font is a recoverable error: the run does
\* not abort on a word that holds one.
C8_AbsentCharacterRecoverable == AbsentCharacter => pc # "crashed"

\* the eleven instructions of a page-break sequence, from position f of p
PageBreakSequence(p, f) ==
    /\ IsMove(p[f], "G0", { "Z", "F" }) /\ p[f].args.Z = pen_z_print_start
    /\ p[f + 1].op = "PAUSE"
    /\ p[f + 2].op \in { "G0", "G1" } /\ DOMAIN p[f + 2].args = { "X", "Y", "F" }
    /\ p[f + 3].op = "M201" /\ p[f + 4].op = "M204T" /\ p[f + 5].op = "M204P"
    /\ p[f + 6].op = "G28XY"
    /\ IsRapid(p[f + 7])
    /\ p[f + 8].op = "G28Z"
    /\ IsMove(p[f + 9], "G0", { "Z", "F" }) /\ p[f + 9].args.Z = pen_z_print_start
    /\ IsRapid(p[f + 10])
    /\ p[f + 10].args.X = pen_x_print_start
    /\ p[f + 10].args.Y = pen_y_print_start

\* every page-break sequence is raise, pause, re-home, reposition and ends
\* right before the first instruction of its word; a word that is about to be
\* rendered without one lies above the bottom buffer; no trajectory holds a
\* pause or a homing directive
PageBreaksBetweenWords ==
    LET p == Program
    IN  /\ \A s \in SegmentsOf("pagebreak") :
            /\ segments[s].last = segments[s].first + 10
            /\ PageBreakSequence(p, segments[s].first)
            /\ IF s = Len(segments)
               THEN /\ pc = "emit"
                    /\ segments[s].line_no = line_no
                    /\ segments[s].word_no = word_no
                    /\ word_y_offset = TopLine
               ELSE /\ segments[s + 1].kind = "word"
                    /\ segments[s + 1].line_no = segments[s].line_no
                    /\ segments[s + 1].word_no = segments[s].word_no
                    /\ segments[s + 1].first = segments[s].last + 1
        /\ pc = "emit" =>
                \/ SeqMin(y_values(word_strokes)) > page_height_buffer
                \/ segments # << >> /\ Last(segments).kind = "pagebreak"
        /\ \A s \in SegmentsOf("word") \cup SegmentsOf("strike") \cup SegmentsOf("date") :
                \A i \in segments[s].first..segments[s].last :
                    p[i].op \in { "G0", "G1" }
        /\ \A i \in 1..Len(p) :
                p[i].op \in { "PAUSE", "G28XY", "G28Z" } =>
                    EmittedBy(i, { "init", "pagebreak" })

\* the step taken for a word whose lowest y is at or below the bottom buffer
PageBreakStep ==
    (pc = "page" /\ SeqMin(y_values(word_strokes)) <= page_height_buffer) =>
        /\ pc' = "emit"
        /\ Translated(word_strokes, word_strokes', 0, TopLine - word_y_offset)
        /\ word_y_offset' = TopLine
        /\ Len(g_code') = Len(g_code) + 11
        /\ SubSeq(g_code', 1, Len(g_code)) = g_code
        /\ Last(segments').kind = "pagebreak"

\* C9: a page break happens only at a word boundary: for a word whose lowest
\* y is at or below the bottom buffer the sequence raise pen, pause, re-home,
\* reposition is emitted in that order right before the word's first
\* instruction, the word is moved to the topmost line and the vertical cursor
\* reset to the top; no pause or homing directive lies inside a trajectory.
C9_PageBreakAtWordBoundary == []PageBreaksBetweenWords /\ [][PageBreakStep]_vars

\* a finished run with a page-break sequence followed by its word
C9_Witness ==
    /\ pc = "done"
    /\ \E s \in SegmentsOf("pagebreak") :
        /\ s < Len(segments)
        /\ segments[s + 1].kind = "word"
        /\ segments[s + 1].last > segments[s + 1].first

\* C10: finalization inserts exactly one marker per recorded checkpoint
\* (index i, minutes m), right before the instruction that was at index i
\* when the checkpoint was recorded (the move or homing directive whose
\* duration triggered it), with m as its elapsed minutes, and leaves the
\* original instructions in their order.
C10_MarkersAtCheckpoints ==
    [][ (pc = "finalize" /\ pc' = "done") =>
            LET fm == full_minute_gcode_positions
                n == Len(fm)
            IN  /\ Len(g_code') = Len(g_code) + n
                /\ SelectSeq(g_code', LAMBDA m : m.op # "M73") = g_code
                /\ \A k \in 1..n :
                    /\ g_code'[fm[k][1] + k].op = "M73"
                    /\ g_code'[fm[k][1] + k].args.R = print_minutes - fm[k][2]
                    /\ g_code'[fm[k][1] + k + 1] = g_code[fm[k][1] + 1]
                    /\ g_code[fm[k][1] + 1].op \in { "G0", "G1", "G28XY", "G28Z" }
                    /\ k < n => fm[k][1] < fm[k + 1][1] ]_vars

\* a finished run with three checkpoints, the markers of the first and the
\* last where their instructions were
C10_Witness ==
    /\ pc = "done"
    /\ Len(full_minute_gcode_positions) >= 3
    /\ g_code[full_minute_gcode_positions[1][1] + 1].op = "M73"
    /\ g_code[full_minute_gcode_positions[3][1] + 3].op = "M73"

\* character c of the word that was rendered last is joined to the next one:
\* it is flagged cursive and the next symbol is alphabetic
Linked(c) ==
    /\ c >= 1
    /\ c < Len(words[word_no])
    /\ cursive_array[c]
    /\ IsAlpha(words[word_no][c + 1])

\* what the samples of character c are to yield: a pen lift at the word's
\* first point, at the first point of a stroke that follows a stroke of the
\* same character and at the first point of a character that follows an
\* unlinked one; a print move at every other point and at every bridge sample
SamplesOfCharacter(c) ==
    Flatten([s \in 1..Len(word_strokes[c]) |->
                [q \in 1..Len(word_strokes[c][s]) |->
                    IF q = 1 /\ (s > 1 \/ c = 1 \/ ~Linked(c - 1))
                    THEN "lift" ELSE "print"]])
    \o (IF Linked(c) THEN [i \in 1..cursive_connection_points |-> "print"] ELSE << >>)

\* the operations those samples stand for: three travel moves per pen lift,
\* one print move otherwise; the word's first point yields the lift alone
OperationsOfWord ==
    LET samples == Flatten([c \in 1..Len(word_strokes) |-> SamplesOfCharacter(c)])
    IN  Flatten([i \in 1..Len(samples) |->
                    IF samples[i] = "lift" THEN << "G0", "G0", "G0" >> ELSE << "G1" >>])

\* the word of the last segment is the one word_strokes holds
WordJustRendered ==
    /\ pc \in { "cross", "crashed" }
    /\ segments # << >>
    /\ Last(segments).kind = "word"
    /\ Last(segments).line_no = line_no
    /\ Last(segments).word_no = word_no

\* C11: in the instructions emitted for one word a pen lift (raise to pen_up,
\* rapid XY move, plunge, all travel moves) stands exactly at the word's first
\* point, at the first point of every stroke that follows a stroke of the
\* same character and at the first point of a character that follows one not
\* linked to it; the bridge samples of a linked transition and every other
\* sample yield one print move each.
C11_PenLiftsAtStrokeStarts ==
    WordJustRendered =>
        LET first == Last(segments).first
            last == Last(segments).last
            expected == OperationsOfWord
        IN  /\ last - first + 1 = Len(expected)
            /\ \A i \in 1..Len(expected) : g_code[first + i - 1].op = expected[i]
            /\ \A i \in first..last :
                    IsRaise(g_code[i]) =>
                        /\ i + 2 <= last
                        /\ IsRapid(g_code[i + 1])
                        /\ IsMove(g_code[i + 2], "G0", { "Z", "F" })

\* the jitter terms of n consecutive spaces, taken from the front of vs
RECURSIVE JitterSum(_, _)
JitterSum(vs, n) ==
    IF n = 0 THEN 0
    ELSE RoundDiv(3 * max_x_variance * vs[n], 100) + JitterSum(vs, n - 1)

\* C12: a blank run of n spaces moves the horizontal cursor to the line's
\* position before it (the end of the preceding word of the same line, or
\* the left margin when the run begins the line) plus n space widths plus
\* the n jitter terms, consumes one jitter value per space and emits no
\* instruction; a word of a previous line has no part in it.
C12_BlankRunAdvancesCursor ==
    [][ (pc = "word" /\ word_no <= Len(words) /\ IsBlank(words[word_no])) =>
            LET n == Len(words[word_no])
                base == IF word_no = 1 THEN LeftMargin ELSE character_x_offset[1]
            IN  /\ pc' = "word"
                /\ error' = "none"
                /\ word_no' = word_no + 1
                /\ word_x_offset' = base + n * space_width + JitterSum(x_variances, n)
                /\ x_variances' = SubSeq(x_variances, n + 1, Len(x_variances))
                /\ g_code' = g_code ]_vars

\* C13: a move is timed with the Z acceleration only when it changes z
\* alone; a move that changes x or y is timed with the travel acceleration
\* when it is a travel move and with the print acceleration when it is a
\* print move, also when its z changes.
C13_AccelerationClass ==
    \A k \in 1..Len(accelerations) :
        LET a == accelerations[k]
            xy_changes == \/ a.new_pos[1] # a.previous_pos[1]
                          \/ a.new_pos[2] # a.previous_pos[2]
            z_changes == a.new_pos[3] # a.previous_pos[3]
        IN  /\ a.acceleration = Z_ACCELERATION => (z_changes /\ ~xy_changes)
            /\ xy_changes =>
                    a.acceleration = IF a.travel_move THEN XY_TRAVEL_ACCELERATION
                                     ELSE XY_ACCELERATION

\* the strike-through segments of the word that segment s rendered
StrikesOf(s) == { t \in 1..Len(segments) : StrikeOf(s, t) }

\* C14: a strike-through is emitted only after a word instance the mistake
\* injector inserted, never after a word of the source text, whatever its
\* spelling; every inserted misspelling is struck through exactly once.
C14_StrikeOnlyInjected ==
    /\ \A t \in SegmentsOf("strike") : segments[t].by_injector
    /\ \A s \in SegmentsOf("word") :
            IF segments[s].by_injector
            THEN s < Len(segments) => Cardinality(StrikesOf(s)) = 1
            ELSE StrikesOf(s) = {}

\* the markers of the program, in its order
Markers == SelectSeq(g_code, LAMBDA m : m.op = "M73")

\* C15: the finalization pass completes without error for every run, also
\* one shorter than a minute; every marker has a percentage in [0, 100]
\* (P is in tenths of a percent) and remaining minutes in [0, print_minutes],
\* the percentages never fall and the remaining minutes never rise along
\* the program.
C15_FinalizationCompletes ==
    /\ (segments # << >> /\ Last(segments).kind = "end") =>
            pc \in { "finalize", "done" }
    /\ pc = "done" =>
            LET ms == Markers
            IN  /\ Len(ms) = Len(full_minute_gcode_positions)
                /\ \A k \in 1..Len(ms) :
                    /\ 0 <= ms[k].args.P /\ ms[k].args.P <= 1000
                    /\ 0 <= ms[k].args.R /\ ms[k].args.R <= print_minutes
                    /\ k < Len(ms) =>
                            /\ ms[k].args.P <= ms[k + 1].args.P
                            /\ ms[k].args.R >= ms[k + 1].args.R
====
